---- MODULE Spec2Model ----
(***************************************************************************)
(* Model of src/code_explainer_service.py (explain_code and its helpers).  *)
(*                                                                         *)
(* Text is a sequence of lexical units.  A unit is one punctuation         *)
(* character, one whitespace character, or one run of letters that the     *)
(* code never splits ("summary", "x", "null", ...).  find, rfind, slicing, *)
(* strip and the JSON grammar all work on whole units, so a Python str is  *)
(* a sequence of units and "" is <<>>.                                     *)
(***************************************************************************)
EXTENDS Integers, Sequences, FiniteSets, TLC

\* ------------------------------------------------------------------ bounds

\* Longest run of units put before and after a JSON text by the model.
MaxPad == 3
\* Longest text made of arbitrary units.
MaxRaw == 4
\* How many chat errors the capability can raise (distinct exception objects).
MaxChatErrors == 2

\* ------------------------------------------------------- program constants

MinTokens == 256
MaxTokens == 8000
ExcerptLen == 2000

FallbackModel == "gpt-4.1-mini"
Placeholder == <<"No summary provided.">>
EmptyCodeMsg == "Code must not be empty."
BadJsonMsg == "Model did not return valid JSON."

\* ------------------------------------------------------------ Python text

\* str.strip() with no argument removes these (the ones the model uses).
PyWhitespace == {" ", "\n", "\t"}
\* The whitespace json.loads skips between tokens.
JsonWhitespace == {" ", "\n", "\t"}
\* Characters below 0x20, which json.loads (strict) rejects inside a string.
ControlChars == {"\n", "\t"}
Digits == {"0", "1"}
Quote == "\""

RECURSIVE LStrip(_)
LStrip(s) ==
    IF s # <<>> /\ Head(s) \in PyWhitespace THEN LStrip(Tail(s)) ELSE s

RECURSIVE RStrip(_)
RStrip(s) ==
    IF s # <<>> /\ s[Len(s)] \in PyWhitespace
    THEN RStrip(SubSeq(s, 1, Len(s) - 1))
    ELSE s

\* s.strip()
Strip(s) == RStrip(LStrip(s))

\* s.find(u): index (from 1) of the first u, 0 when there is none (Python: -1)
Find(s, u) ==
    LET hits == {i \in 1..Len(s) : s[i] = u}
    IN  IF hits = {} THEN 0 ELSE CHOOSE i \in hits : \A j \in hits : i <= j

\* s.rfind(u): index (from 1) of the last u, 0 when there is none
RFind(s, u) ==
    LET hits == {i \in 1..Len(s) : s[i] = u}
    IN  IF hits = {} THEN 0 ELSE CHOOSE i \in hits : \A j \in hits : i >= j

\* s[:n]
Take(s, n) == IF Len(s) <= n THEN s ELSE SubSeq(s, 1, n)

\* ---------------------------------------------------------- Python values

\* Every value (JSON payload, response envelope) is a record of one shape:
\* t the type, s the text of a scalar, keys/elems the members of a container.
PyNone == [t |-> "none", s |-> <<>>, keys |-> <<>>, elems |-> <<>>]
PyBool(u) == [t |-> "bool", s |-> <<u>>, keys |-> <<>>, elems |-> <<>>]
PyInt(ds) == [t |-> "int", s |-> ds, keys |-> <<>>, elems |-> <<>>]
PyStrVal(s) == [t |-> "str", s |-> s, keys |-> <<>>, elems |-> <<>>]
PyList(es) == [t |-> "list", s |-> <<>>, keys |-> <<>>, elems |-> es]
PyDict(ks, es) == [t |-> "dict", s |-> <<>>, keys |-> ks, elems |-> es]

\* bool(v): None, False, 0, "", [] and {} are falsy
Truthy(v) ==
    CASE v.t = "none" -> FALSE
      [] v.t = "bool" -> v.s = <<"true">>
      [] v.t = "int" -> v.s # <<"0">>
      [] v.t = "str" -> v.s # <<>>
      [] v.t = "list" -> v.elems # <<>>
      [] v.t = "dict" -> v.keys # <<>>

\* k in d
HasKey(d, k) == \E i \in 1..Len(d.keys) : d.keys[i] = k

\* d[k] for a key that is there
Lookup(d, k) == d.elems[CHOOSE i \in 1..Len(d.keys) : d.keys[i] = k]

\* d.get(k, default)
DictGet(d, k, default) == IF HasKey(d, k) THEN Lookup(d, k) ELSE default

\* d[k] = v on the member lists: a repeated key keeps its place, last value wins
DictPut(ks, es, k, v) ==
    IF \E i \in 1..Len(ks) : ks[i] = k
    THEN [keys |-> ks,
          elems |-> [i \in 1..Len(es) |-> IF ks[i] = k THEN v ELSE es[i]]]
    ELSE [keys |-> Append(ks, k), elems |-> Append(es, v)]

\* One unit of a str as repr() writes it inside the quotes.
ReprUnit(u) == IF u = "\n" THEN "\\n" ELSE IF u = "\t" THEN "\\t" ELSE u

RECURSIVE PyRepr(_)
RECURSIVE ReprItems(_, _)
RECURSIVE ReprMembers(_, _, _)

\* ", ".join(repr(e) for e in es), from element i on
ReprItems(es, i) ==
    IF i > Len(es) THEN <<>>
    ELSE PyRepr(es[i]) \o (IF i < Len(es) THEN <<",", " ">> ELSE <<>>)
         \o ReprItems(es, i + 1)

\* ", ".join(repr(k) + ": " + repr(v)), from member i on
ReprMembers(ks, es, i) ==
    IF i > Len(ks) THEN <<>>
    ELSE <<"'">> \o [j \in 1..Len(ks[i]) |-> ReprUnit(ks[i][j])] \o <<"'", ":", " ">>
         \o PyRepr(es[i]) \o (IF i < Len(ks) THEN <<",", " ">> ELSE <<>>)
         \o ReprMembers(ks, es, i + 1)

\* repr(v)
PyRepr(v) ==
    CASE v.t = "none" -> <<"None">>
      [] v.t = "bool" -> IF v.s = <<"true">> THEN <<"True">> ELSE <<"False">>
      [] v.t = "int" -> v.s
      [] v.t = "str" -> <<"'">> \o [j \in 1..Len(v.s) |-> ReprUnit(v.s[j])] \o <<"'">>
      [] v.t = "list" -> <<"[">> \o ReprItems(v.elems, 1) \o <<"]">>
      [] v.t = "dict" -> <<"{">> \o ReprMembers(v.keys, v.elems, 1) \o <<"}">>

\* str(v): a str is itself, anything else is its repr
PyStr(v) == IF v.t = "str" THEN v.s ELSE PyRepr(v)

\* ---------------------------------------------------------------- json.loads

ParseFail == [ok |-> FALSE, val |-> PyNone, next |-> 0]
ParseOk(v, n) == [ok |-> TRUE, val |-> v, next |-> n]

RECURSIVE SkipWs(_, _)
\* the first position from i on that holds no JSON whitespace
SkipWs(txt, i) ==
    IF i <= Len(txt) /\ txt[i] \in JsonWhitespace THEN SkipWs(txt, i + 1) ELSE i

RECURSIVE DigitsEnd(_, _)
\* the position after the run of digits that starts at i
DigitsEnd(txt, i) ==
    IF i <= Len(txt) /\ txt[i] \in Digits THEN DigitsEnd(txt, i + 1) ELSE i

\* a string literal whose opening quote is at i
ParseString(txt, i) ==
    LET closing == {j \in (i + 1)..Len(txt) : txt[j] = Quote}
    IN  IF closing = {} THEN ParseFail
        ELSE LET j == CHOOSE x \in closing : \A y \in closing : x <= y
                 body == SubSeq(txt, i + 1, j - 1)
             IN  IF \E n \in 1..Len(body) : body[n] \in ControlChars
                 THEN ParseFail
                 ELSE ParseOk(PyStrVal(body), j + 1)

RECURSIVE ParseValue(_, _)
RECURSIVE ParseElems(_, _, _)
RECURSIVE ParseMembers(_, _, _, _)

\* after an element: j is at "]" (the array ends), at "," (another element
\* follows) or at anything else (an error)
ElemsNext(txt, es, j) ==
    IF j > Len(txt) THEN ParseFail
    ELSE IF txt[j] = "]" THEN ParseOk(PyList(es), j + 1)
    ELSE IF txt[j] = "," THEN ParseElems(txt, SkipWs(txt, j + 1), es)
    ELSE ParseFail

\* r is what parsing one element gave
ElemsAfter(txt, es, r) ==
    IF ~r.ok THEN ParseFail
    ELSE ElemsNext(txt, Append(es, r.val), SkipWs(txt, r.next))

\* the elements of an array, i at the start of the next element
ParseElems(txt, i, es) == ElemsAfter(txt, es, ParseValue(txt, i))

\* after a member: j is at "}" (the object ends), at "," (another member
\* follows) or at anything else (an error); d holds the members so far
MemberNext(txt, d, j) ==
    IF j > Len(txt) THEN ParseFail
    ELSE IF txt[j] = "}" THEN ParseOk(PyDict(d.keys, d.elems), j + 1)
    ELSE IF txt[j] = "," THEN ParseMembers(txt, SkipWs(txt, j + 1), d.keys, d.elems)
    ELSE ParseFail

\* r is what parsing the value of member `key` gave
MemberValue(txt, ks, es, key, r) ==
    IF ~r.ok THEN ParseFail
    ELSE MemberNext(txt, DictPut(ks, es, key, r.val), SkipWs(txt, r.next))

\* c is the first position after the key that holds no whitespace
MemberColon(txt, ks, es, key, c) ==
    IF c > Len(txt) \/ txt[c] # ":" THEN ParseFail
    ELSE MemberValue(txt, ks, es, key, ParseValue(txt, SkipWs(txt, c + 1)))

\* k is what parsing the key gave
MemberKey(txt, ks, es, k) ==
    IF ~k.ok THEN ParseFail
    ELSE MemberColon(txt, ks, es, k.val.s, SkipWs(txt, k.next))

\* the members of an object, i at the start of the next key
ParseMembers(txt, i, ks, es) ==
    IF i > Len(txt) \/ txt[i] # Quote THEN ParseFail
    ELSE MemberKey(txt, ks, es, ParseString(txt, i))

\* "{" was read; j is the first position after it that holds no whitespace
ParseObject(txt, j) ==
    IF j <= Len(txt) /\ txt[j] = "}"
    THEN ParseOk(PyDict(<<>>, <<>>), j + 1)
    ELSE ParseMembers(txt, j, <<>>, <<>>)

\* "[" was read; j is the first position after it that holds no whitespace
ParseArray(txt, j) ==
    IF j <= Len(txt) /\ txt[j] = "]"
    THEN ParseOk(PyList(<<>>), j + 1)
    ELSE ParseElems(txt, j, <<>>)

\* a number whose digits end before e
ParseNumber(txt, i, e) == ParseOk(PyInt(SubSeq(txt, i, e - 1)), e)

\* one JSON value that starts at i (whitespace already skipped)
ParseValue(txt, i) ==
    IF i > Len(txt) THEN ParseFail
    ELSE CASE txt[i] = Quote -> ParseString(txt, i)
           [] txt[i] = "{" -> ParseObject(txt, SkipWs(txt, i + 1))
           [] txt[i] = "[" -> ParseArray(txt, SkipWs(txt, i + 1))
           [] txt[i] = "null" -> ParseOk(PyNone, i + 1)
           [] txt[i] \in {"true", "false"} -> ParseOk(PyBool(txt[i]), i + 1)
           [] txt[i] = "0" -> ParseOk(PyInt(<<"0">>), i + 1)
           [] txt[i] = "1" -> ParseNumber(txt, i, DigitsEnd(txt, i))
           [] OTHER -> ParseFail

\* r is the value at the start of txt: only whitespace may follow it
WholeText(txt, r) ==
    IF r.ok /\ SkipWs(txt, r.next) = Len(txt) + 1 THEN r ELSE ParseFail

\* json.loads(txt): ok with the value, or not ok (json.JSONDecodeError)
JsonLoads(txt) == WholeText(txt, ParseValue(txt, SkipWs(txt, 1)))

\* json.dumps(v), with its default ", " and ": " separators
RECURSIVE JsonDumps(_)
RECURSIVE DumpItems(_, _)
RECURSIVE DumpMembers(_, _, _)

DumpItems(es, i) ==
    IF i > Len(es) THEN <<>>
    ELSE JsonDumps(es[i]) \o (IF i < Len(es) THEN <<",", " ">> ELSE <<>>)
         \o DumpItems(es, i + 1)

DumpMembers(ks, es, i) ==
    IF i > Len(ks) THEN <<>>
    ELSE <<Quote>> \o ks[i] \o <<Quote, ":", " ">> \o JsonDumps(es[i])
         \o (IF i < Len(ks) THEN <<",", " ">> ELSE <<>>)
         \o DumpMembers(ks, es, i + 1)

JsonDumps(v) ==
    CASE v.t = "none" -> <<"null">>
      [] v.t = "bool" -> v.s
      [] v.t = "int" -> v.s
      [] v.t = "str" -> <<Quote>> \o v.s \o <<Quote>>
      [] v.t = "list" -> <<"[">> \o DumpItems(v.elems, 1) \o <<"]">>
      [] v.t = "dict" -> <<"{">> \o DumpMembers(v.keys, v.elems, 1) \o <<"}">>

\* ------------------------------------------------------- explain_code steps

\* IsBlank with a slip: the strip() test is left out.
IsBlankNoStrip(code) == code = <<>>

\* if not req.code or not req.code.strip()
IsBlank(code) == code = <<>> \/ Strip(code) = <<>>

\* x or fallback, for an Optional[str] x
OrElse(x, fallback) == IF Truthy(x) THEN x ELSE fallback

SystemMsg ==
    <<"You are a patient code tutor.", " ", "Respond ONLY as JSON with keys:", " ",
      "summary (string), steps (array of strings),", " ",
      "pitfalls (array of strings), detected_language (string).", " ",
      "Keep it concise and accurate.">>

\* UserMsg with a slip: the `or` fallbacks of lines 22 and 23 are left out.
UserMsgNoFallback(r) ==
    <<"LANGUAGE HINT: ">> \o r.language.s
    \o <<"\n", "EXTRA CONTEXT: ">> \o r.extra_context.s
    \o <<"\n", "CODE:", "\n", "<fence>code", "\n">> \o r.code \o <<"\n", "<fence>">>

\* "<fence>" stands for the three backquotes that open and close the block.
UserMsg(r) ==
    <<"LANGUAGE HINT: ">> \o OrElse(r.language, PyStrVal(<<"unknown">>)).s
    \o <<"\n", "EXTRA CONTEXT: ">> \o OrElse(r.extra_context, PyStrVal(<<"none">>)).s
    \o <<"\n", "CODE:", "\n", "<fence>code", "\n">> \o r.code \o <<"\n", "<fence>">>

\* _build_messages(req)
BuildMessages(r) ==
    << [role |-> "system", content |-> SystemMsg],
       [role |-> "user", content |-> UserMsg(r)] >>

\* Candidates with a slip: the classes are tried before the factories.
CandidatesClassesFirst == <<"ChatClient", "Client", "get_openai_client", "get_client">>

\* the names _get_default_client tries, in the order of its try blocks
Candidates == <<"get_openai_client", "get_client", "ChatClient", "Client">>

\* What "from .client import <name>; <name>()" does for one candidate:
\* the name is missing (ImportError), the call raises, or it returns a client
\* that has no default_model ("plain") or has one ("configured").
CandidateStates == {"missing", "raises", "plain", "configured"}

NoClient == [id |-> "none", has_default |-> FALSE, default_model |-> PyNone]
ClientDefault == PyStrVal(<<"client-model">>)
DefaultClient(name, state) ==
    [id |-> name, has_default |-> state = "configured",
     default_model |-> IF state = "configured" THEN ClientDefault ELSE PyNone]

\* The positions of the candidates that return a client, in module `module`.
Usable(module) == {i \in 1..Len(Candidates) : module[Candidates[i]] \in {"plain", "configured"}}

RECURSIVE TryCandidates(_, _, _)
\* Lines 49-79 from candidate i on: each try block imports and calls one name
\* and returns what it gave; except Exception passes on to the next block;
\* after the last block RuntimeError is raised.  tried holds the names whose
\* block was entered so far.
TryCandidates(module, i, tried) ==
    IF i > Len(Candidates)
    THEN [ok |-> FALSE, client |-> NoClient, tried |-> tried]
    ELSE IF i \in Usable(module)
    THEN [ok |-> TRUE, client |-> DefaultClient(Candidates[i], module[Candidates[i]]),
          tried |-> Append(tried, Candidates[i])]
    ELSE TryCandidates(module, i + 1, Append(tried, Candidates[i]))

\* _get_default_client(): ok with the client, or not ok (RuntimeError)
GetDefaultClient(module) == TryCandidates(module, 1, <<>>)

\* client or _get_default_client()
ResolveClient(arg, module) ==
    IF arg # NoClient THEN [ok |-> TRUE, client |-> arg, tried |-> <<>>]
    ELSE GetDefaultClient(module)

\* ChooseModel with a slip: the client's default is asked before the argument.
ChooseModelClientFirst(model, cl) ==
    LET d == IF cl.has_default THEN cl.default_model ELSE PyNone
    IN  IF Truthy(d) THEN d
        ELSE IF Truthy(model) THEN model ELSE PyStrVal(<<FallbackModel>>)

\* model or getattr(client, "default_model", None) or "gpt-4.1-mini"
ChooseModel(model, cl) ==
    IF Truthy(model) THEN model
    ELSE LET d == IF cl.has_default THEN cl.default_model ELSE PyNone
         IN  IF Truthy(d) THEN d ELSE PyStrVal(<<FallbackModel>>)

Max2(a, b) == IF a >= b THEN a ELSE b
Min2(a, b) == IF a <= b THEN a ELSE b

\* ClampMaxTokens with a slip: the upper limit is left out.
ClampNoUpper(n) == Max2(MinTokens, n)

\* min(max(256, req.max_tokens), 8000)
ClampMaxTokens(n) == Min2(Max2(MinTokens, n), MaxTokens)

Temperature == "0.2"

\* the keyword arguments of client.chat(...)
ChatArgs(r, model, cl) ==
    [messages |-> BuildMessages(r),
     model |-> ChooseModel(model, cl),
     temperature |-> Temperature,
     max_tokens |-> ClampMaxTokens(r.max_tokens)]

\* v[k] for a str key: only a dict that has the key answers
Subscript(v, k) ==
    IF v.t = "dict" /\ HasKey(v, k)
    THEN [ok |-> TRUE, val |-> Lookup(v, k)]
    ELSE [ok |-> FALSE, val |-> PyNone]

\* v[0]: the first element of a non-empty list, the first character of a
\* non-empty str
Subscript0(v) ==
    IF v.t = "list" /\ v.elems # <<>> THEN [ok |-> TRUE, val |-> v.elems[1]]
    ELSE IF v.t = "str" /\ v.s # <<>> THEN [ok |-> TRUE, val |-> PyStrVal(<<v.s[1]>>)]
    ELSE [ok |-> FALSE, val |-> PyNone]

\* _extract_content(response)
ExtractContent(response) ==
    LET choices == Subscript(response, <<"choices">>)
        first == IF choices.ok THEN Subscript0(choices.val) ELSE choices
        message == IF first.ok THEN Subscript(first.val, <<"message">>) ELSE first
        content == IF message.ok THEN Subscript(message.val, <<"content">>) ELSE message
    IN  IF content.ok THEN content.val ELSE PyStrVal(PyStr(response))

\* SalvageWindow with a slip: the slice stops before the closing brace.
SalvageWindowExclusive(content, start, end) == SubSeq(content, start, end - 1)

\* content[start : end + 1]
SalvageWindow(content, start, end) == SubSeq(content, start, end)

\* Lines 130-138: how data is obtained from content.  path says which branch
\* ended the step: "direct" and "salvage" bind data; "not_str" (json.loads
\* raises TypeError), "salvage_failed" (the second json.loads raises
\* JSONDecodeError inside the handler) and "no_brace" (the logged ValueError)
\* raise.
AfterSalvage(w) ==
    IF w.ok THEN [path |-> "salvage", data |-> w.val]
    ELSE [path |-> "salvage_failed", data |-> PyNone]

\* the except branch: start, end = content.find("{"), content.rfind("}")
Salvage(text, start, end) ==
    IF start # 0 /\ end # 0 /\ end > start
    THEN AfterSalvage(JsonLoads(SalvageWindow(text, start, end)))
    ELSE [path |-> "no_brace", data |-> PyNone]

\* direct is what json.loads(content) gave
AfterDirect(text, direct) ==
    IF direct.ok THEN [path |-> "direct", data |-> direct.val]
    ELSE Salvage(text, Find(text, "{"), RFind(text, "}"))

ParseContent(content) ==
    IF content.t # "str" THEN [path |-> "not_str", data |-> PyNone]
    ELSE AfterDirect(content.s, JsonLoads(content.s))

\* CoerceSummary with a slip: the placeholder is left out.
CoerceSummaryNoDefault(data) == Strip(PyStr(DictGet(data, <<"summary">>, PyStrVal(<<>>))))

\* str(data.get("summary", "")).strip(), then `summary or "No summary provided."`
CoerceSummary(data) ==
    LET s == Strip(PyStr(DictGet(data, <<"summary">>, PyStrVal(<<>>))))
    IN  IF s # <<>> THEN s ELSE Placeholder

\* StrEach with a slip: the elements are kept as they came.
StrEachRaw(es) == es

\* [str(s) for s in steps]
StrEach(es) == [i \in 1..Len(es) |-> PyStrVal(PyStr(es[i]))]

\* CoerceList with a slip: the isinstance test is left out, a list is wrapped too.
CoerceListAlwaysWrap(data, key) ==
    LET got == DictGet(data, key, PyNone)
        v == IF Truthy(got) THEN got ELSE PyList(<<>>)
    IN  StrEach(<<PyStrVal(PyStr(v))>>)

\* data.get(key) or [], wrapped when it is no list, every element through str()
CoerceList(data, key) ==
    LET got == DictGet(data, key, PyNone)
        v == IF Truthy(got) THEN got ELSE PyList(<<>>)
        lst == IF v.t = "list" THEN v.elems ELSE <<PyStrVal(PyStr(v))>>
    IN  StrEach(lst)

\* str(detected_language) if detected_language else None
CoerceLanguage(data) ==
    LET v == DictGet(data, <<"detected_language">>, PyNone)
    IN  IF Truthy(v) THEN PyStrVal(PyStr(v)) ELSE PyNone

\* Explanation(...)
Explanation(data) ==
    [summary |-> CoerceSummary(data),
     steps |-> CoerceList(data, <<"steps">>),
     pitfalls |-> CoerceList(data, <<"pitfalls">>),
     detected_language |-> CoerceLanguage(data)]

NoResult == [summary |-> <<>>, steps |-> <<>>, pitfalls |-> <<>>, detected_language |-> PyNone]

\* How a call ends: kind "returned" with result, or "raised" with the exception
\* (class, message, the code that raised it, and the identity of an exception
\* object that came from the capability; 0 for one created here).
NoOutcome == [kind |-> "none", exc |-> "", msg |-> "", origin |-> "", id |-> 0, result |-> NoResult]
Returned(x) == [kind |-> "returned", exc |-> "", msg |-> "", origin |-> "", id |-> 0, result |-> x]
Raised(exc, msg, origin) ==
    [kind |-> "raised", exc |-> exc, msg |-> msg, origin |-> origin, id |-> 0, result |-> NoResult]

\* ChatFailure with a slip: the exception is caught and replaced.
ChatFailureWrapped(e) == Raised("ValueError", BadJsonMsg, "explain_code")

\* An exception raised inside client.chat(...) leaves explain_code as it is.
ChatFailure(e) ==
    [kind |-> "raised", exc |-> e.exc, msg |-> e.msg, origin |-> "chat", id |-> e.id,
     result |-> NoResult]

\* Lines 140-156, or the exception that ended lines 130-138.
Conclude(parsed) ==
    CASE parsed.path = "not_str" ->
            Raised("TypeError", "the JSON object must be str, bytes or bytearray", "json.loads")
      [] parsed.path = "salvage_failed" ->
            Raised("JSONDecodeError", "Expecting value", "json.loads")
      [] parsed.path = "no_brace" ->
            Raised("ValueError", BadJsonMsg, "explain_code")
      [] OTHER ->
            IF parsed.data.t # "dict"
            THEN Raised("AttributeError", "object has no attribute get", "explain_code")
            ELSE Returned(Explanation(parsed.data))

\* content[:2000] as logged on the no-brace branch (one excerpt, or nothing)
Excerpt(content, parsed) ==
    IF parsed.path = "no_brace" THEN <<Take(content.s, ExcerptLen)>> ELSE <<>>

Interpreted(content, parsed) ==
    [content |-> content,
     path |-> parsed.path,
     excerpt |-> Excerpt(content, parsed),
     outcome |-> Conclude(parsed)]

InterpretContent(content) == Interpreted(content, ParseContent(content))

\* Lines 127-156 for one response: the content handed to json.loads, the branch
\* taken, what is logged and how the call ends.
Interpret(response) == InterpretContent(ExtractContent(response))

NoClientMsg == "Could not construct the default OpenAI client."

\* ------------------------------------------------------------------ inputs

SeqsUpTo(S, n) == UNION {[1..k -> S] : k \in 0..n}

S(u) == PyStrVal(<<u>>)

\* ExplainRequest(code=..., language=..., extra_context=..., max_tokens=...)
Codes == {<<>>, <<" ">>, <<"\n", "\t">>, <<"x">>, <<" ", "x", "\n">>}
Languages == {PyNone, PyStrVal(<<>>), S("python")}
Contexts == {PyNone, S("unit test")}
TokenRequests == {-1, 0, 10, 255, 256, 1200, 8000, 8001, 999999}
Requests ==
    [code : Codes, language : Languages, extra_context : Contexts,
     max_tokens : TokenRequests]

\* the model= keyword of explain_code
ModelArgs == {PyNone, PyStrVal(<<>>), S("gpt-4o-mini")}

\* client objects a caller passes in: without default_model, or with one that
\* is None, "" or a model identifier
InjectedClients ==
    {[id |-> "injected", has_default |-> FALSE, default_model |-> PyNone]}
    \cup {[id |-> "injected", has_default |-> TRUE, default_model |-> d] :
             d \in {PyNone, PyStrVal(<<>>), ClientDefault}}

\* src/client.py as it is here: none of the four names can be imported
NoModule == [n \in {Candidates[i] : i \in 1..Len(Candidates)} |-> "missing"]
Modules ==
    {NoModule,
     [NoModule EXCEPT !["ChatClient"] = "plain"],
     [NoModule EXCEPT !["get_openai_client"] = "raises", !["get_client"] = "configured",
                      !["Client"] = "plain"],
     [NoModule EXCEPT !["get_client"] = "raises", !["ChatClient"] = "raises",
                      !["Client"] = "raises"]}

\* (client argument, state of src/client.py): a fake module is installed only
\* where the default client is resolved
ClientScenarios == (InjectedClients \X {NoModule}) \cup ({NoClient} \X Modules)

\* values a model may put in a field of its JSON answer
A == S("a")
B == S("b")
FieldValues ==
    {PyNone, PyStrVal(<<>>), A, PyStrVal(<<" ", "a", " ">>), PyStrVal(<<" ", " ">>),
     PyInt(<<"0">>), PyInt(<<"1">>), PyBool("false"), PyBool("true"),
     PyList(<<>>), PyList(<<A>>), PyList(<<A, B>>), PyList(<<PyInt(<<"0">>), PyNone>>),
     PyList(<<PyList(<<B>>)>>), PyDict(<<>>, <<>>), PyDict(<<<<"a">>>>, <<B>>)}
SmallValues == {PyNone, B, PyInt(<<"0">>), PyList(<<B>>)}

Typical ==
    PyDict(<< <<"summary">>, <<"steps">>, <<"pitfalls">>, <<"detected_language">> >>,
           << S("S"), PyList(<<A, B>>), PyList(<<>>), S("python") >>)

Payloads ==
    {Typical, PyDict(<<>>, <<>>)}
    \cup {PyDict(<< <<"summary">>, <<"steps">> >>, <<S("S"), v>>) : v \in FieldValues}
    \cup {PyDict(<< <<"pitfalls">>, <<"summary">> >>, <<v, S("S")>>) : v \in FieldValues}
    \cup {PyDict(<< <<"steps">>, <<"pitfalls">> >>, <<v, w>>) : v \in SmallValues, w \in SmallValues}
    \cup {PyDict(<< <<"summary">>, <<"steps">> >>, <<v, A>>) : v \in FieldValues}
    \cup {PyDict(<< <<"detected_language">> >>, <<v>>) : v \in FieldValues}

Pads == SeqsUpTo({"x", "{", "}"}, MaxPad) \cup {<<" ">>, <<"\n", " ">>}
PaddedValues ==
    {Typical, PyDict(<< <<"steps">> >>, <<A>>), PyDict(<<>>, <<>>), PyList(<<>>),
     PyList(<<PyDict(<< <<"summary">> >>, <<S("S")>>)>>)}
RawTexts == SeqsUpTo({"{", "}", "[", "]", Quote, ":", "a", "1", " "}, MaxRaw)
Xs(n) == [i \in 1..n |-> "x"]
LongTexts ==
    {Xs(ExcerptLen + 1), <<"{">> \o Xs(ExcerptLen), Xs(ExcerptLen) \o <<"}", "{">>,
     <<"{">> \o Xs(ExcerptLen) \o <<"}">>}

Texts ==
    {JsonDumps(v) : v \in Payloads \cup FieldValues}
    \cup {pre \o JsonDumps(v) \o suf : v \in PaddedValues, pre \in Pads, suf \in Pads}
    \cup RawTexts \cup LongTexts

\* what choices[0].message.content can hold: text, or something that is no str
Contents ==
    {PyStrVal(t) : t \in Texts} \cup {PyNone, PyInt(<<"1">>), Typical, PyList(<<A>>)}

WellShaped(c) ==
    PyDict(<< <<"choices">> >>,
           << PyList(<< PyDict(<< <<"message">> >>,
                               << PyDict(<< <<"role">>, <<"content">> >>,
                                         << S("assistant"), c >>) >>) >>) >>)

OddEnvelopes ==
    {PyDict(<< <<"foo">> >>, <<S("bar")>>), PyDict(<<>>, <<>>), PyList(<<>>), PyNone,
     S("x"), PyInt(<<"1">>),
     PyDict(<< <<"choices">> >>, <<PyList(<<>>)>>),
     PyDict(<< <<"choices">> >>, <<S("x")>>),
     PyDict(<< <<"choices">> >>, <<PyList(<<PyDict(<< <<"message">> >>, <<PyNone>>)>>)>>),
     PyDict(<< <<"choices">> >>, <<PyList(<<PyDict(<< <<"message">> >>, <<PyDict(<<>>, <<>>)>>)>>)>>)}

Envelopes == {WellShaped(c) : c \in Contents} \cup OddEnvelopes

CoreEnvelopes ==
    {WellShaped(PyStrVal(JsonDumps(Typical))),
     WellShaped(PyStrVal(<<"x", "\n">> \o JsonDumps(Typical) \o <<"\n", "x">>)),
     WellShaped(PyStrVal(<<"x">>)),
     WellShaped(PyStrVal(<<"{", "x", "}">>)),
     WellShaped(PyStrVal(<<"[", "]">>)),
     WellShaped(PyNone),
     PyDict(<< <<"foo">> >>, <<S("bar")>>)}

NoError == [exc |-> "", msg |-> "", id |-> 0]

\* exceptions the capability can raise; id tells exception objects apart
ChatErrors ==
    {[exc |-> k, msg |-> "chat failed", id |-> i] :
        k \in {"APITimeoutError", "ValueError"}, i \in 1..MaxChatErrors}

\* ------------------------------------------------------ run_explain_command

\* argparse namespace of the explain command
NoArgs ==
    [code |-> PyNone, file |-> PyNone, language |-> PyNone, context |-> PyNone,
     explain_max_tokens |-> 0, explain_model |-> PyNone]

\* No command is running: explain_code is called directly.
NoCommand == [pc |-> "none", args |-> NoArgs, out |-> <<>>, rc |-> <<>>, exc |-> ""]

\* open(args.file).read(): the text of a file that is there
FileNames == {<<"snippet.py">>, <<"blank.py">>}
FileText(name) == IF name = <<"snippet.py">> THEN <<"y">> ELSE <<" ", "\n">>

\* lines 280-285: neither args.code nor args.file is truthy
MissingSource(args) == ~Truthy(args.code) /\ ~Truthy(args.file)

RequiredMsg == <<"Error: --code or --file is required for explanation.">>

DigitUnits == <<"0", "1", "2", "3", "4", "5", "6", "7", "8", "9">>
RECURSIVE Decimal(_)
\* str(n) for n >= 0
Decimal(n) ==
    IF n < 10 THEN <<DigitUnits[n + 1]>>
    ELSE Decimal(n \div 10) \o <<DigitUnits[(n % 10) + 1]>>

\* StepLines with a slip: nothing is printed when there are no steps.
StepLinesNoPlaceholder(steps) ==
    [i \in 1..Len(steps) |-> Decimal(i) \o <<". ">> \o steps[i].s]

\* lines 307-311: one numbered line per step, or "(no steps)"
StepLines(steps) ==
    IF steps # <<>>
    THEN [i \in 1..Len(steps) |-> Decimal(i) \o <<". ">> \o steps[i].s]
    ELSE << <<"(no steps)">> >>

\* lines 314-318: one dashed line per pitfall, or "(none)"
PitfallLines(pitfalls) ==
    IF pitfalls # <<>>
    THEN [i \in 1..Len(pitfalls) |-> <<"- ">> \o pitfalls[i].s]
    ELSE << <<"(none)">> >>

\* lines 299-319: what is printed for an Explanation, one element per print
Printed(result) ==
    << <<"\n", "=== Code Explanation ===">> >>
    \o (IF Truthy(result.detected_language)
        THEN << <<"Detected language: ">> \o result.detected_language.s >> ELSE <<>>)
    \o << <<"\n", "Summary:">>,
          IF result.summary # <<>> THEN result.summary ELSE <<"(no summary)">>,
          <<"\n", "How it works:">> >>
    \o StepLines(result.steps)
    \o << <<"\n", "Errors:">> >>
    \o PitfallLines(result.pitfalls)
    \o << <<>> >>

\* ------------------------------------------------------------------- state

VARIABLES
    clientModule,   \* what src/client.py offers: candidate name -> CandidateStates
    pc,             \* per call: "start", "in_chat" (inside client.chat) or "done"
    req,            \* per call: the ExplainRequest
    clientArg,      \* per call: the client argument (NoClient for None)
    modelArg,       \* per call: the model argument
    client,         \* per call: the client after line 113
    attempts,       \* per call: the names _get_default_client tried, in order
    chatCalls,      \* per call: the keyword arguments of every client.chat call made
    chatError,      \* per call: what client.chat raised (NoError when nothing)
    response,       \* per call: what client.chat returned
    content,        \* per call: what _extract_content returned
    path,           \* per call: the branch of lines 130-138 that was taken
    outcome,        \* per call: how explain_code ended
    log,            \* the records given to the module's logger, in order
    cli             \* the run of run_explain_command: position, args, stdout, exit

vars ==
    <<clientModule, pc, req, clientArg, modelArg, client, attempts, chatCalls,
      chatError, response, content, path, outcome, log, cli>>

\* One call of explain_code per id in ids, not yet started.
Start(ids, requests, models, scenarios) ==
    /\ \E sc \in scenarios :
          /\ clientModule = sc[2]
          /\ clientArg = [c \in ids |-> sc[1]]
    /\ req \in [ids -> requests]
    /\ modelArg \in [ids -> models]
    /\ pc = [c \in ids |-> "start"]
    /\ client = [c \in ids |-> NoClient]
    /\ attempts = [c \in ids |-> <<>>]
    /\ chatCalls = [c \in ids |-> <<>>]
    /\ chatError = [c \in ids |-> NoError]
    /\ response = [c \in ids |-> PyNone]
    /\ content = [c \in ids |-> PyNone]
    /\ path = [c \in ids |-> ""]
    /\ outcome = [c \in ids |-> NoOutcome]
    /\ log = <<>>
    /\ cli = NoCommand

\* logger.info("Explaining code (len=%d chars, lang=%s)", ...)
InfoRecord(c, r) ==
    [call |-> c, level |-> "info", len |-> Len(r.code),
     text |-> OrElse(r.language, S("unknown")).s]

\* logger.error("Failed to parse model output as JSON: %r", content[:2000])
ErrorRecord(c, excerpt) ==
    [call |-> c, level |-> "error", len |-> Len(excerpt), text |-> excerpt]

\* Lines 107-108: empty or whitespace-only code is refused.
RejectEmpty(c) ==
    /\ pc[c] = "start"
    /\ IsBlank(req[c].code)
    /\ outcome' = [outcome EXCEPT ![c] = Raised("ValueError", EmptyCodeMsg, "explain_code")]
    /\ pc' = [pc EXCEPT ![c] = "done"]
    /\ UNCHANGED <<clientModule, req, clientArg, modelArg, client, attempts,
                   chatCalls, chatError, response, content, path, log, cli>>

\* Lines 107-113 when no client is passed and _get_default_client raises.
ResolveFails(c) ==
    /\ pc[c] = "start"
    /\ ~IsBlank(req[c].code)
    /\ ~ResolveClient(clientArg[c], clientModule).ok
    /\ attempts' = [attempts EXCEPT ![c] = ResolveClient(clientArg[c], clientModule).tried]
    /\ log' = Append(log, InfoRecord(c, req[c]))
    /\ outcome' = [outcome EXCEPT ![c] = Raised("RuntimeError", NoClientMsg, "_get_default_client")]
    /\ pc' = [pc EXCEPT ![c] = "done"]
    /\ UNCHANGED <<clientModule, req, clientArg, modelArg, client, chatCalls,
                   chatError, response, content, path, cli>>

\* Lines 107-125 up to the call of client.chat: validate, log, resolve the
\* client, build the messages, choose the model, clamp max_tokens, call.
InvokeChat(c) ==
    /\ pc[c] = "start"
    /\ ~IsBlank(req[c].code)
    /\ LET got == ResolveClient(clientArg[c], clientModule)
       IN  /\ got.ok
           /\ client' = [client EXCEPT ![c] = got.client]
           /\ attempts' = [attempts EXCEPT ![c] = got.tried]
           /\ chatCalls' = [chatCalls EXCEPT
                               ![c] = Append(@, ChatArgs(req[c], modelArg[c], got.client))]
    /\ log' = Append(log, InfoRecord(c, req[c]))
    /\ pc' = [pc EXCEPT ![c] = "in_chat"]
    /\ UNCHANGED <<clientModule, req, clientArg, modelArg, chatError, response,
                   content, path, outcome, cli>>

\* client.chat raises one of errors: nothing in explain_code catches it.
ChatRaises(c, errors) ==
    /\ pc[c] = "in_chat"
    /\ \E e \in errors :
          /\ chatError' = [chatError EXCEPT ![c] = e]
          /\ outcome' = [outcome EXCEPT ![c] = ChatFailure(e)]
    /\ pc' = [pc EXCEPT ![c] = "done"]
    /\ UNCHANGED <<clientModule, req, clientArg, modelArg, client, attempts,
                   chatCalls, response, content, path, log, cli>>

\* AfterResponse with a slip: a call that failed on the response starts over.
AfterResponseRetry(o) == IF o.kind = "raised" THEN "start" ELSE "done"

\* Where a call stands once lines 127-156 have run: the raise of line 135 or
\* 138 and the return of line 151 both leave explain_code; there is no loop.
AfterResponse(o) == "done"

\* Deliver with a slip: the result is kept in one place that all calls share.
DeliverShared(c, r, i) ==
    /\ pc' = [pc EXCEPT ![c] = AfterResponse(i.outcome)]
    /\ response' = [response EXCEPT ![c] = r]
    /\ content' = [content EXCEPT ![c] = i.content]
    /\ path' = [path EXCEPT ![c] = i.path]
    /\ log' = IF i.excerpt = <<>> THEN log ELSE Append(log, ErrorRecord(c, i.excerpt[1]))
    /\ outcome' = [x \in DOMAIN outcome |-> i.outcome]

\* i is what lines 127-156 make of the response r.
Deliver(c, r, i) ==
    /\ pc' = [pc EXCEPT ![c] = AfterResponse(i.outcome)]
    /\ response' = [response EXCEPT ![c] = r]
    /\ content' = [content EXCEPT ![c] = i.content]
    /\ path' = [path EXCEPT ![c] = i.path]
    /\ log' = IF i.excerpt = <<>> THEN log ELSE Append(log, ErrorRecord(c, i.excerpt[1]))
    /\ outcome' = [outcome EXCEPT ![c] = i.outcome]

\* client.chat returns one of answers: lines 127-156.
ChatReturns(c, answers) ==
    /\ pc[c] = "in_chat"
    /\ \E r \in answers : Deliver(c, r, Interpret(r))
    /\ UNCHANGED <<clientModule, req, clientArg, modelArg, client, attempts,
                   chatCalls, chatError, cli>>

\* Lines 280-285: without code and without a file the command prints the
\* error and returns 2.
CliRefuse ==
    /\ cli.pc = "start"
    /\ MissingSource(cli.args)
    /\ cli' = [cli EXCEPT !.pc = "done", !.out = Append(@, RequiredMsg), !.rc = <<2>>]
    /\ UNCHANGED <<clientModule, pc, req, clientArg, modelArg, client, attempts,
                   chatCalls, chatError, response, content, path, outcome, log>>

\* Line 286: the file cannot be opened; the error leaves the command.
CliOpenFails ==
    /\ cli.pc = "start"
    /\ ~Truthy(cli.args.code)
    /\ Truthy(cli.args.file)
    /\ cli.args.file.s \notin FileNames
    /\ cli' = [cli EXCEPT !.pc = "done", !.exc = "FileNotFoundError"]
    /\ UNCHANGED <<clientModule, pc, req, clientArg, modelArg, client, attempts,
                   chatCalls, chatError, response, content, path, outcome, log>>

\* Lines 280-296: the code is taken from the flag or read from the file, the
\* request is built and explain_code(req, model=args.explain_model) is entered
\* as call c, without a client.
CliCall(c) ==
    /\ cli.pc = "start"
    /\ pc[c] = "idle"
    /\ ~MissingSource(cli.args)
    /\ Truthy(cli.args.code) \/ cli.args.file.s \in FileNames
    /\ req' = [req EXCEPT ![c] =
                 [code |-> IF Truthy(cli.args.code) THEN cli.args.code.s
                           ELSE FileText(cli.args.file.s),
                  language |-> cli.args.language,
                  extra_context |-> cli.args.context,
                  max_tokens |-> cli.args.explain_max_tokens]]
    /\ modelArg' = [modelArg EXCEPT ![c] = cli.args.explain_model]
    /\ clientArg' = [clientArg EXCEPT ![c] = NoClient]
    /\ pc' = [pc EXCEPT ![c] = "start"]
    /\ cli' = [cli EXCEPT !.pc = "calling"]
    /\ UNCHANGED <<clientModule, client, attempts, chatCalls, chatError, response,
                   content, path, outcome, log>>

\* Lines 296-320: explain_code returned; the Explanation is printed and the
\* command returns 0.
CliPrint(c) ==
    /\ cli.pc = "calling"
    /\ pc[c] = "done"
    /\ outcome[c].kind = "returned"
    /\ cli' = [cli EXCEPT !.pc = "done", !.out = @ \o Printed(outcome[c].result),
                          !.rc = <<0>>]
    /\ UNCHANGED <<clientModule, pc, req, clientArg, modelArg, client, attempts,
                   chatCalls, chatError, response, content, path, outcome, log>>

\* Line 296: explain_code raised; nothing in the command catches it.
CliPropagate(c) ==
    /\ cli.pc = "calling"
    /\ pc[c] = "done"
    /\ outcome[c].kind = "raised"
    /\ cli' = [cli EXCEPT !.pc = "done", !.exc = outcome[c].exc]
    /\ UNCHANGED <<clientModule, pc, req, clientArg, modelArg, client, attempts,
                   chatCalls, chatError, response, content, path, outcome, log>>

\* One caller, every request, a few answers of the capability.
Callers == {1}
Init == Start(Callers, Requests, ModelArgs, ClientScenarios)
Next ==
    \/ \E c \in Callers : RejectEmpty(c)
    \/ \E c \in Callers : ResolveFails(c)
    \/ \E c \in Callers : InvokeChat(c)
    \/ \E c \in Callers : ChatRaises(c, ChatErrors)
    \/ \E c \in Callers : ChatReturns(c, CoreEnvelopes)
Spec == Init /\ [][Next]_vars

\* One caller, a few requests, every answer of the capability.
ReplyRequests ==
    [code : {<<" ">>, <<"x">>}, language : {PyNone}, extra_context : {PyNone},
     max_tokens : {1200}]
ReplyScenarios ==
    {<<[id |-> "injected", has_default |-> FALSE, default_model |-> PyNone], NoModule>>,
     <<NoClient, NoModule>>}
InitReply == Start(Callers, ReplyRequests, {PyNone}, ReplyScenarios)
NextReply ==
    \/ \E c \in Callers : RejectEmpty(c)
    \/ \E c \in Callers : ResolveFails(c)
    \/ \E c \in Callers : InvokeChat(c)
    \/ \E c \in Callers : ChatRaises(c, ChatErrors)
    \/ \E c \in Callers : ChatReturns(c, Envelopes)
SpecReply == InitReply /\ [][NextReply]_vars

\* Two calls that run interleaved (two requests served at once by the web
\* form), with one capability between them: a call can be inside client.chat
\* while the other starts, is answered or fails.
PairCallers == {1, 2}
PairRequests ==
    [code : {<<" ">>, <<"x">>, <<"y">>}, language : {PyNone}, extra_context : {PyNone},
     max_tokens : {10, 8001}]
PairModels == {PyNone, S("gpt-4o-mini")}
PairScenarios ==
    {<<[id |-> "injected", has_default |-> TRUE, default_model |-> ClientDefault], NoModule>>,
     <<NoClient, NoModule>>,
     <<NoClient, [NoModule EXCEPT !["ChatClient"] = "plain"]>>}
InitPair == Start(PairCallers, PairRequests, PairModels, PairScenarios)
NextPair ==
    \/ \E c \in PairCallers : RejectEmpty(c)
    \/ \E c \in PairCallers : ResolveFails(c)
    \/ \E c \in PairCallers : InvokeChat(c)
    \/ \E c \in PairCallers : ChatRaises(c, ChatErrors)
    \/ \E c \in PairCallers : ChatReturns(c, CoreEnvelopes)
SpecPair == InitPair /\ [][NextPair]_vars

\* One caller without a client argument, every state of src/client.py.
AllModules == [{Candidates[i] : i \in 1..Len(Candidates)} -> CandidateStates]
InitDefault == Start(Callers, ReplyRequests, {PyNone}, {NoClient} \X AllModules)
NextDefault ==
    \/ \E c \in Callers : RejectEmpty(c)
    \/ \E c \in Callers : ResolveFails(c)
    \/ \E c \in Callers : InvokeChat(c)
    \/ \E c \in Callers : ChatRaises(c, ChatErrors)
    \/ \E c \in Callers : ChatReturns(c, CoreEnvelopes)
SpecDefault == InitDefault /\ [][NextDefault]_vars

\* One run of the explain command; explain_code is entered from it.
CliArgs ==
    [code : {PyNone, PyStrVal(<<>>), S("x"), PyStrVal(<<" ">>)},
     file : {PyNone, PyStrVal(<<>>), S("snippet.py"), S("blank.py"), S("missing.py")},
     language : {PyNone, S("python")}, context : {PyNone},
     explain_max_tokens : {8000}, explain_model : {PyNone, S("gpt-4o-mini")}]
CliModules == {NoModule, [NoModule EXCEPT !["ChatClient"] = "plain"]}
NoRequest == [code |-> <<>>, language |-> PyNone, extra_context |-> PyNone, max_tokens |-> 0]
CliPayloads ==
    {Typical, PyDict(<<>>, <<>>),
     PyDict(<< <<"summary">>, <<"steps">>, <<"pitfalls">> >>,
            << PyStrVal(<<" ">>), PyList(<<>>), PyList(<<A, B>>) >>),
     PyDict(<< <<"steps">>, <<"pitfalls">> >>, << A, PyInt(<<"0">>) >>)}
CliEnvelopes ==
    {WellShaped(PyStrVal(JsonDumps(v))) : v \in CliPayloads}
    \cup {WellShaped(PyStrVal(<<"x">>)), WellShaped(PyStrVal(<<"[", "]">>))}
InitCli ==
    /\ cli \in {[pc |-> "start", args |-> a, out |-> <<>>, rc |-> <<>>, exc |-> ""] :
                    a \in CliArgs}
    /\ clientModule \in CliModules
    /\ clientArg = [c \in Callers |-> NoClient]
    /\ req = [c \in Callers |-> NoRequest]
    /\ modelArg = [c \in Callers |-> PyNone]
    /\ pc = [c \in Callers |-> "idle"]
    /\ client = [c \in Callers |-> NoClient]
    /\ attempts = [c \in Callers |-> <<>>]
    /\ chatCalls = [c \in Callers |-> <<>>]
    /\ chatError = [c \in Callers |-> NoError]
    /\ response = [c \in Callers |-> PyNone]
    /\ content = [c \in Callers |-> PyNone]
    /\ path = [c \in Callers |-> ""]
    /\ outcome = [c \in Callers |-> NoOutcome]
    /\ log = <<>>
NextCli ==
    \/ CliRefuse
    \/ CliOpenFails
    \/ \E c \in Callers : CliCall(c)
    \/ \E c \in Callers : RejectEmpty(c)
    \/ \E c \in Callers : ResolveFails(c)
    \/ \E c \in Callers : InvokeChat(c)
    \/ \E c \in Callers : ChatRaises(c, ChatErrors)
    \/ \E c \in Callers : ChatReturns(c, CliEnvelopes)
    \/ \E c \in Callers : CliPrint(c)
    \/ \E c \in Callers : CliPropagate(c)
SpecCli == InitCli /\ [][NextCli]_vars

\* ================================================================== claims

\* code is empty or holds nothing but whitespace
OnlyWhitespace(code) == \A i \in 1..Len(code) : code[i] \in {" ", "\n", "\t"}

\* a model identifier was supplied: a str that is not empty
Given(x) == x.t = "str" /\ x.s # <<>>

\* C1: a call whose code is empty or whitespace-only never resolves a client
\* and never reaches client.chat, and it ends with the ValueError of line 108,
\* also when no client was passed and no default client could be built.
C1_BlankCodeRejected ==
    \A c \in DOMAIN pc :
        OnlyWhitespace(req[c].code) =>
            /\ pc[c] # "in_chat"
            /\ chatCalls[c] = <<>>
            /\ client[c] = NoClient
            /\ pc[c] = "done" =>
                  /\ outcome[c].kind = "raised"
                  /\ outcome[c].exc = "ValueError"
                  /\ outcome[c].msg = EmptyCodeMsg

\* A whitespace-only request without a client, where no default client exists,
\* has ended.
C1_Witness ==
    \E c \in DOMAIN pc :
        /\ req[c].code # <<>>
        /\ OnlyWhitespace(req[c].code)
        /\ clientArg[c] = NoClient
        /\ clientModule = NoModule
        /\ pc[c] = "done"
        /\ outcome[c].exc = "ValueError"

\* C7: the max_tokens given to client.chat is in 256..8000: the requested
\* value when that is in the range, 256 when it is below, 8000 when above.
C7_MaxTokensClamped ==
    \A c \in DOMAIN pc :
        \A k \in 1..Len(chatCalls[c]) :
            LET n == req[c].max_tokens
                m == chatCalls[c][k].max_tokens
            IN  /\ m >= 256 /\ m <= 8000
                /\ (n >= 256 /\ n <= 8000) => m = n
                /\ n < 256 => m = 256
                /\ n > 8000 => m = 8000

\* client.chat was called for a request that asked for more than 8000 tokens.
C7_Witness ==
    \E c \in DOMAIN pc :
        /\ chatCalls[c] # <<>>
        /\ req[c].max_tokens > 8000
        /\ chatCalls[c][1].max_tokens = 8000

\* C8: client.chat gets the model argument when one is given, else the
\* client's default_model when the client has one, else "gpt-4.1-mini".
\* (Given: a non-empty str; None and "" count as not given.)
C8_ModelPrecedence ==
    \A c \in DOMAIN pc :
        \A k \in 1..Len(chatCalls[c]) :
            LET used == chatCalls[c][k].model
                declared == client[c].has_default /\ Given(client[c].default_model)
            IN  /\ Given(modelArg[c]) => used = modelArg[c]
                /\ (~Given(modelArg[c]) /\ declared) => used = client[c].default_model
                /\ (~Given(modelArg[c]) /\ ~declared) => used = PyStrVal(<<"gpt-4.1-mini">>)

\* client.chat was called with the model argument although the client has a
\* default of its own.
C8_Witness ==
    \E c \in DOMAIN pc :
        /\ chatCalls[c] # <<>>
        /\ Given(modelArg[c])
        /\ client[c].has_default /\ Given(client[c].default_model)
        /\ client[c].default_model # modelArg[c]
        /\ chatCalls[c][1].model = modelArg[c]

\* C10: when client.chat raises, the call ends with that very exception
\* (same class, message and object), and returns nothing.
C10_ChatErrorPropagates ==
    \A c \in DOMAIN pc :
        chatError[c] # NoError =>
            /\ pc[c] = "done"
            /\ outcome[c].kind = "raised"
            /\ outcome[c].exc = chatError[c].exc
            /\ outcome[c].msg = chatError[c].msg
            /\ outcome[c].id = chatError[c].id
            /\ outcome[c].origin = "chat"
            /\ outcome[c].result = NoResult

\* client.chat raised a ValueError of its own.
C10_Witness ==
    \E c \in DOMAIN pc :
        /\ chatError[c] # NoError
        /\ chatError[c].exc = "ValueError"
        /\ pc[c] = "done"

\* The response has arrived and lines 127-156 have run for call c.
Answered(c) == path[c] # ""

\* the positions of the first "{" and of the last "}" of text t
FirstOpen(t) == CHOOSE i \in 1..Len(t) : t[i] = "{" /\ \A j \in 1..(i - 1) : t[j] # "{"
LastClose(t) == CHOOSE i \in 1..Len(t) : t[i] = "}" /\ \A j \in (i + 1)..Len(t) : t[j] # "}"

\* t has a "{" and, after it, a "}"
HasBracePair(t) ==
    \E i \in 1..Len(t) : t[i] = "{" /\ \E j \in (i + 1)..Len(t) : t[j] = "}"

\* the text from the first "{" to the last "}" of t, both included
BraceWindow(t) == SubSeq(t, FirstOpen(t), LastClose(t))

\* the response has the shape choices[0].message.content
HasShape(r) ==
    /\ r.t = "dict" /\ HasKey(r, <<"choices">>)
    /\ Lookup(r, <<"choices">>).t = "list"
    /\ Lookup(r, <<"choices">>).elems # <<>>
    /\ Lookup(r, <<"choices">>).elems[1].t = "dict"
    /\ HasKey(Lookup(r, <<"choices">>).elems[1], <<"message">>)
    /\ Lookup(Lookup(r, <<"choices">>).elems[1], <<"message">>).t = "dict"
    /\ HasKey(Lookup(Lookup(r, <<"choices">>).elems[1], <<"message">>), <<"content">>)

\* choices[0].message.content of a response that has the shape
ShapeContent(r) ==
    Lookup(Lookup(Lookup(r, <<"choices">>).elems[1], <<"message">>), <<"content">>)

\* the object the Explanation of call c was made from
Payload(c) == ParseContent(content[c]).data

\* x is a sequence of strings
IsStrSeq(x) == DOMAIN x = 1..Len(x) /\ \A i \in 1..Len(x) : x[i].t = "str"

\* the class is ValueError or a subclass of it
IsValueError(exc) == exc \in {"ValueError", "JSONDecodeError"}

\* C2 (as claimed): a call with non-empty code whose client.chat was called
\* ends in one of three ways: an Explanation with a non-empty summary, the
\* invalid-model-output ValueError, or the exception the capability raised.
C2_ThreeOutcomes ==
    \A c \in DOMAIN pc :
        (pc[c] = "done" /\ ~OnlyWhitespace(req[c].code) /\ chatCalls[c] # <<>>) =>
            \/ outcome[c].kind = "returned" /\ outcome[c].result.summary # <<>>
            \/ /\ outcome[c].kind = "raised"
               /\ outcome[c].origin # "chat"
               /\ IsValueError(outcome[c].exc)
            \/ outcome[c].kind = "raised" /\ outcome[c].origin = "chat"

\* C3 (as claimed): when the text is not JSON and there is no brace pair or
\* the salvage window is not JSON either, the call ends with the ValueError
\* "Model did not return valid JSON." and the first 2000 characters of the
\* text are logged, on both paths alike.
C3_ParseFailureDiagnostic ==
    \A c \in DOMAIN pc :
        (/\ Answered(c)
         /\ content[c].t = "str"
         /\ ~JsonLoads(content[c].s).ok
         /\ (~HasBracePair(content[c].s) \/ ~JsonLoads(BraceWindow(content[c].s)).ok)) =>
            /\ outcome[c].kind = "raised"
            /\ outcome[c].exc = "ValueError"
            /\ outcome[c].msg = BadJsonMsg
            /\ \E i \in 1..Len(log) :
                  /\ log[i].call = c
                  /\ log[i].level = "error"
                  /\ log[i].text = Take(content[c].s, 2000)

\* C4: the salvage window is used only when the whole text is not JSON; and
\* when the whole text is not JSON but the text from its first "{" to its last
\* "}" is, the call returns the Explanation made from that window, the same
\* as for a response whose content is the window alone.
C4_SalvageEquivalent ==
    \A c \in DOMAIN pc :
        (Answered(c) /\ content[c].t = "str") =>
            LET t == content[c].s
            IN  /\ JsonLoads(t).ok => path[c] = "direct"
                /\ path[c] = "salvage" => ~JsonLoads(t).ok
                /\ (/\ ~JsonLoads(t).ok
                    /\ HasBracePair(t)
                    /\ JsonLoads(BraceWindow(t)).ok) =>
                       /\ path[c] = "salvage"
                       /\ outcome[c].kind = "returned"
                       /\ outcome[c].result = Explanation(JsonLoads(BraceWindow(t)).val)
                       /\ outcome[c] = Interpret(WellShaped(PyStrVal(BraceWindow(t)))).outcome

\* An Explanation with steps was salvaged from a text with prose around the
\* object.
C4_Witness ==
    \E c \in DOMAIN pc :
        /\ path[c] = "salvage"
        /\ outcome[c].kind = "returned"
        /\ BraceWindow(content[c].s) # content[c].s
        /\ content[c].s[1] = "x"
        /\ outcome[c].result.steps # <<>>

\* C5: in every Explanation returned, steps and pitfalls are sequences whose
\* elements are all strings.
C5_ListsOfStrings ==
    \A c \in DOMAIN pc :
        outcome[c].kind = "returned" =>
            /\ IsStrSeq(outcome[c].result.steps)
            /\ IsStrSeq(outcome[c].result.pitfalls)

\* An Explanation was returned for a payload whose steps is a list that holds
\* something that is no string.
C5_Witness ==
    \E c \in DOMAIN pc :
        /\ outcome[c].kind = "returned"
        /\ HasKey(Payload(c), <<"steps">>)
        /\ Lookup(Payload(c), <<"steps">>).t = "list"
        /\ \E i \in 1..Len(Lookup(Payload(c), <<"steps">>).elems) :
              Lookup(Payload(c), <<"steps">>).elems[i].t # "str"

\* the steps or the pitfalls of an Explanation
ResultField(x, k) == IF k = <<"steps">> THEN x.steps ELSE x.pitfalls

\* C6 (as claimed): a steps or pitfalls field that is present and no list
\* gives the one-element sequence of its str(), whatever the value; an absent
\* field gives the empty sequence.
C6_ScalarWrapped ==
    \A c \in DOMAIN pc :
        outcome[c].kind = "returned" =>
            \A k \in {<<"steps">>, <<"pitfalls">>} :
                /\ (HasKey(Payload(c), k) /\ Lookup(Payload(c), k).t # "list") =>
                      ResultField(outcome[c].result, k)
                          = <<PyStrVal(PyStr(Lookup(Payload(c), k)))>>
                /\ ~HasKey(Payload(c), k) => ResultField(outcome[c].result, k) = <<>>

\* C9 (as claimed): what is handed to json.loads is a str:
\* choices[0].message.content when the response has that shape, str(response)
\* otherwise; a response of another shape, or one whose content is no text,
\* ends in the invalid-model-output ValueError.
C9_ContentIsString ==
    \A c \in DOMAIN pc :
        Answered(c) =>
            /\ content[c].t = "str"
            /\ HasShape(response[c]) => content[c] = ShapeContent(response[c])
            /\ ~HasShape(response[c]) => content[c] = PyStrVal(PyStr(response[c]))
            /\ (~HasShape(response[c]) \/ content[c].t # "str") =>
                  /\ outcome[c].kind = "raised"
                  /\ IsValueError(outcome[c].exc)

\* the call has a chat capability: a client was passed, or src/client.py has
\* a name that gives one
HasCapability(c) ==
    \/ clientArg[c] # NoClient
    \/ \E n \in DOMAIN clientModule : clientModule[n] \in {"plain", "configured"}

\* C11: a call invokes client.chat at most once, whatever the response or the
\* error; a call with code that is not blank and with a chat capability has
\* invoked it exactly once from the moment it is inside client.chat, and a
\* call without a capability ends without any invocation.
C11_NoRetry ==
    \A c \in DOMAIN pc :
        /\ Len(chatCalls[c]) <= 1
        /\ pc[c] = "in_chat" => Len(chatCalls[c]) = 1
        /\ (pc[c] = "done" /\ ~OnlyWhitespace(req[c].code) /\ HasCapability(c)) =>
              Len(chatCalls[c]) = 1
        /\ (pc[c] = "done" /\ ~HasCapability(c)) => Len(chatCalls[c]) = 0

\* A call whose salvage failed has ended after one invocation.
C11_Witness ==
    \E c \in DOMAIN pc :
        /\ pc[c] = "done"
        /\ path[c] = "salvage_failed"
        /\ outcome[c].kind = "raised"
        /\ Len(chatCalls[c]) = 1

\* C11 (as claimed): at most one invocation, and exactly one in every call
\* whose code is non-empty (here: not blank), once the call has ended.
C11_ExactlyOnce ==
    \A c \in DOMAIN pc :
        /\ Len(chatCalls[c]) <= 1
        /\ (pc[c] = "done" /\ ~OnlyWhitespace(req[c].code)) => Len(chatCalls[c]) = 1

\* text t without the whitespace at its two ends
Trimmed(t) ==
    LET keep == {i \in 1..Len(t) : t[i] \notin {" ", "\n", "\t"}}
    IN  IF keep = {} THEN <<>>
        ELSE SubSeq(t, CHOOSE i \in keep : \A j \in keep : i <= j,
                       CHOOSE i \in keep : \A j \in keep : i >= j)

\* C12: the summary of a returned Explanation is never empty: it is the
\* placeholder when the payload has no summary or one that is an empty or
\* whitespace-only string, and else str() of the payload's summary without
\* the whitespace at its ends.
C12_SummaryOrPlaceholder ==
    \A c \in DOMAIN pc :
        outcome[c].kind = "returned" =>
            LET got == outcome[c].result.summary
                has == HasKey(Payload(c), <<"summary">>)
            IN  /\ got # <<>>
                /\ ~has => got = <<"No summary provided.">>
                /\ (has /\ Trimmed(PyStr(Lookup(Payload(c), <<"summary">>))) = <<>>) =>
                      got = <<"No summary provided.">>
                /\ (has /\ Trimmed(PyStr(Lookup(Payload(c), <<"summary">>))) # <<>>) =>
                      got = Trimmed(PyStr(Lookup(Payload(c), <<"summary">>)))

\* An Explanation was returned for a payload whose summary is a string of
\* spaces, and it carries the placeholder.
C12_Witness ==
    \E c \in DOMAIN pc :
        /\ outcome[c].kind = "returned"
        /\ HasKey(Payload(c), <<"summary">>)
        /\ Lookup(Payload(c), <<"summary">>).t = "str"
        /\ Lookup(Payload(c), <<"summary">>).s # <<>>
        /\ OnlyWhitespace(Lookup(Payload(c), <<"summary">>).s)
        /\ outcome[c].result.summary = <<"No summary provided.">>

\* field k of payload p is there and is a list whose elements are all strings
IsStrList(p, k) ==
    /\ HasKey(p, k)
    /\ Lookup(p, k).t = "list"
    /\ \A i \in 1..Len(Lookup(p, k).elems) : Lookup(p, k).elems[i].t = "str"

\* an Explanation written back as the payload a model would send for it
AsPayload(x) ==
    PyDict(<< <<"summary">>, <<"steps">>, <<"pitfalls">>, <<"detected_language">> >>,
           << PyStrVal(x.summary), PyList(x.steps), PyList(x.pitfalls),
              x.detected_language >>)

\* C13: a steps or pitfalls field that is already a list of strings comes
\* back element for element (same length, same order), and the Explanation
\* made from a returned Explanation is that Explanation again.
C13_CoercionIdempotent ==
    \A c \in DOMAIN pc :
        outcome[c].kind = "returned" =>
            /\ \A k \in {<<"steps">>, <<"pitfalls">>} :
                  IsStrList(Payload(c), k) =>
                      /\ Len(ResultField(outcome[c].result, k)) = Len(Lookup(Payload(c), k).elems)
                      /\ \A i \in 1..Len(Lookup(Payload(c), k).elems) :
                            ResultField(outcome[c].result, k)[i] = Lookup(Payload(c), k).elems[i]
            /\ Explanation(AsPayload(outcome[c].result)) = outcome[c].result

\* An Explanation was returned for a payload whose steps are two different
\* strings.
C13_Witness ==
    \E c \in DOMAIN pc :
        /\ outcome[c].kind = "returned"
        /\ IsStrList(Payload(c), <<"steps">>)
        /\ Len(Lookup(Payload(c), <<"steps">>).elems) = 2
        /\ Lookup(Payload(c), <<"steps">>).elems[1] # Lookup(Payload(c), <<"steps">>).elems[2]
        /\ Len(outcome[c].result.steps) = 2

\* How a call with request r, client argument cl and model argument m ends
\* when it runs alone and the capability raises err or answers resp.
AloneOutcome(r, cl, module, err, resp) ==
    IF OnlyWhitespace(r.code) THEN Raised("ValueError", EmptyCodeMsg, "explain_code")
    ELSE IF ~ResolveClient(cl, module).ok
    THEN Raised("RuntimeError", NoClientMsg, "_get_default_client")
    ELSE IF err # NoError THEN ChatFailure(err)
    ELSE Interpret(resp).outcome

\* What such a call hands to client.chat.
AloneArgs(r, cl, m, module) == ChatArgs(r, m, ResolveClient(cl, module).client)

\* The log records of call c, in the order they were written.
OwnRecords(c) == SelectSeq(log, LAMBDA x : x.call = c)

\* What a call that runs alone has logged once it has ended.
AloneRecords(c) ==
    IF OnlyWhitespace(req[c].code) THEN <<>>
    ELSE <<InfoRecord(c, req[c])>>
         \o (IF path[c] = "no_brace"
             THEN <<ErrorRecord(c, Take(content[c].s, ExcerptLen))>> ELSE <<>>)

\* C14: with two calls interleaved, each call hands client.chat the messages,
\* model and max_tokens it would hand over alone, ends as it would alone for
\* the same answer of the capability, and has logged what it would log alone:
\* nothing of a call depends on the other call.
C14_CallsIndependent ==
    \A c \in DOMAIN pc :
        /\ \A k \in 1..Len(chatCalls[c]) :
              chatCalls[c][k] = AloneArgs(req[c], clientArg[c], modelArg[c], clientModule)
        /\ pc[c] = "done" =>
              /\ outcome[c] = AloneOutcome(req[c], clientArg[c], clientModule,
                                           chatError[c], response[c])
              /\ OwnRecords(c) = AloneRecords(c)

\* Two calls with different requests have ended differently, and the second
\* one started and ended while the first was inside client.chat.
C14_Witness ==
    /\ DOMAIN pc = {1, 2}
    /\ pc[1] = "done" /\ pc[2] = "done"
    /\ req[1].code # req[2].code
    /\ chatCalls[1] # <<>> /\ chatCalls[2] # <<>>
    /\ chatCalls[1] # chatCalls[2]
    /\ outcome[1].kind = "raised" /\ outcome[2].kind = "returned"
    /\ Len(log) = 3
    /\ log[1].call = 1 /\ log[2].call = 2 /\ log[3].call = 1

\* text t holds the units of part, one after the other
Contains(t, part) ==
    \E i \in 1..(Len(t) - Len(part) + 1) : SubSeq(t, i, i + Len(part) - 1) = part

\* the text of an optional str, or the word that stands in when none is given
TextOr(x, word) == IF Given(x) THEN x.s ELSE <<word>>

\* C15: what client.chat gets as messages depends on the request alone
\* (equal requests, equal messages): two messages, system then user; the
\* system text is the JSON-only instruction, the same for every request; the
\* user text holds the language hint or "unknown", the extra context or
\* "none", and the code as it came between the opening and the closing fence.
C15_MessagesFromRequest ==
    \A c \in DOMAIN pc :
        \A k \in 1..Len(chatCalls[c]) :
            LET msgs == chatCalls[c][k].messages
            IN  /\ msgs = BuildMessages(req[c])
                /\ Len(msgs) = 2
                /\ msgs[1].role = "system" /\ msgs[2].role = "user"
                /\ Contains(msgs[1].content, <<"Respond ONLY as JSON with keys:">>)
                /\ \A r \in Requests : BuildMessages(r)[1] = msgs[1]
                /\ \A r \in Requests : r = req[c] => BuildMessages(r) = msgs
                /\ Contains(msgs[2].content,
                            <<"LANGUAGE HINT: ">> \o TextOr(req[c].language, "unknown") \o <<"\n">>)
                /\ Contains(msgs[2].content,
                            <<"EXTRA CONTEXT: ">> \o TextOr(req[c].extra_context, "none") \o <<"\n">>)
                /\ Contains(msgs[2].content,
                            <<"<fence>code", "\n">> \o req[c].code \o <<"\n", "<fence>">>)

\* client.chat was called for a request with an empty language hint, an extra
\* context and code that has whitespace at its ends.
C15_Witness ==
    \E c \in DOMAIN pc :
        /\ chatCalls[c] # <<>>
        /\ req[c].language = PyStrVal(<<>>)
        /\ req[c].extra_context.t = "str"
        /\ req[c].code = <<" ", "x", "\n">>
        /\ Contains(chatCalls[c][1].messages[2].content, <<"LANGUAGE HINT: ", "unknown">>)

\* the four candidates in the order the claim gives
ClaimedOrder == <<"get_openai_client", "get_client", "ChatClient", "Client">>

\* candidate n of src/client.py can be imported and called without error
Works(n) == clientModule[n] \in {"plain", "configured"}

\* C16: for a call that resolved the default client, the candidates were tried
\* in the order get_openai_client, get_client, ChatClient, Client up to the
\* first one that works, every one before it is missing or raises, the client
\* is what that one returned, and no later candidate was tried; when none of
\* the four works all four were tried and the call ends with RuntimeError,
\* without a client and without a chat call.
C16_FirstWorkingCandidate ==
    \A c \in DOMAIN pc :
        (pc[c] # "start" /\ ~OnlyWhitespace(req[c].code) /\ clientArg[c] = NoClient) =>
            IF \E i \in 1..4 : Works(ClaimedOrder[i])
            THEN \E i \in 1..4 :
                    /\ Works(ClaimedOrder[i])
                    /\ \A j \in 1..(i - 1) : ~Works(ClaimedOrder[j])
                    /\ attempts[c] = SubSeq(ClaimedOrder, 1, i)
                    /\ client[c].id = ClaimedOrder[i]
                    /\ client[c].has_default = (clientModule[ClaimedOrder[i]] = "configured")
                    /\ chatCalls[c] # <<>>
                    /\ outcome[c].exc # "RuntimeError"
            ELSE /\ attempts[c] = ClaimedOrder
                 /\ client[c] = NoClient
                 /\ chatCalls[c] = <<>>
                 /\ pc[c] = "done"
                 /\ outcome[c].kind = "raised"
                 /\ outcome[c].exc = "RuntimeError"

\* The default client came from ChatClient after get_openai_client was found
\* missing and get_client raised, although Client works too.
C16_Witness ==
    \E c \in DOMAIN pc :
        /\ clientArg[c] = NoClient
        /\ clientModule["get_openai_client"] = "missing"
        /\ clientModule["get_client"] = "raises"
        /\ clientModule["ChatClient"] = "plain"
        /\ clientModule["Client"] = "configured"
        /\ client[c].id = "ChatClient"
        /\ attempts[c] = <<"get_openai_client", "get_client", "ChatClient">>
        /\ pc[c] = "done"

\* the lines of out from the one that ends in heading up to the next heading
\* (a line that starts with a newline) or the end
After(out, heading) ==
    LET h == CHOOSE i \in 1..Len(out) : out[i] = <<"\n", heading>>
        stops == {j \in (h + 1)..Len(out) : out[j] = <<>> \/ Head(out[j]) = "\n"}
        stop == IF stops = {} THEN Len(out) + 1
                ELSE CHOOSE j \in stops : \A x \in stops : j <= x
    IN  SubSeq(out, h + 1, stop - 1)

\* C17: a run whose arguments carry neither code nor a file never enters
\* explain_code and ends with exit code 2 after printing the message that
\* --code or --file is required; a run in which explain_code returned an
\* Explanation ends with exit code 0 after printing the summary, one line per
\* step in order or "(no steps)", and one line per pitfall in order or
\* "(none)".
C17_CommandExitCodes ==
    /\ (~Truthy(cli.args.code) /\ ~Truthy(cli.args.file) /\ cli.pc # "none") =>
          /\ \A c \in DOMAIN pc : pc[c] = "idle" /\ chatCalls[c] = <<>>
          /\ cli.pc = "done" =>
                /\ cli.rc = <<2>>
                /\ cli.out = << <<"Error: --code or --file is required for explanation.">> >>
                /\ cli.exc = ""
    /\ \A c \in DOMAIN pc :
          (cli.pc = "done" /\ outcome[c].kind = "returned") =>
              LET x == outcome[c].result
              IN  /\ cli.rc = <<0>>
                  /\ cli.exc = ""
                  /\ After(cli.out, "Summary:") = <<x.summary>>
                  /\ x.steps = <<>> => After(cli.out, "How it works:") = << <<"(no steps)">> >>
                  /\ x.steps # <<>> =>
                        /\ Len(After(cli.out, "How it works:")) = Len(x.steps)
                        /\ \A i \in 1..Len(x.steps) :
                              Contains(After(cli.out, "How it works:")[i], x.steps[i].s)
                  /\ x.pitfalls = <<>> => After(cli.out, "Errors:") = << <<"(none)">> >>
                  /\ x.pitfalls # <<>> =>
                        /\ Len(After(cli.out, "Errors:")) = Len(x.pitfalls)
                        /\ \A i \in 1..Len(x.pitfalls) :
                              Contains(After(cli.out, "Errors:")[i], x.pitfalls[i].s)

\* A run with an empty --code and no file has ended with exit code 2.
C17_RefusalReached ==
    /\ cli.pc = "done"
    /\ cli.args.code = PyStrVal(<<>>)
    /\ cli.args.file = PyNone
    /\ cli.rc = <<2>>

\* A run that read its code from a file has printed an Explanation without
\* steps and with two pitfalls, and has ended with exit code 0.
C17_Witness ==
    \E c \in DOMAIN pc :
        /\ cli.pc = "done"
        /\ cli.args.code = PyNone
        /\ cli.args.file = PyStrVal(<<"snippet.py">>)
        /\ outcome[c].kind = "returned"
        /\ outcome[c].result.steps = <<>>
        /\ Len(outcome[c].result.pitfalls) = 2
        /\ cli.rc = <<0>>

====
